---- MODULE Spec2Model ----
(***************************************************************************)
(* A model of viral-content-machine.py: one run of main(), from the point  *)
(* where parse_args() has returned the parsed arguments, through           *)
(* get_reddit_instance() and get_newletter_content(), to the end of the    *)
(* process.  The Reddit API (praw) is the environment: every call that     *)
(* goes to the network either returns data drawn from a small set or       *)
(* raises.  Printed text is kept as the sequence `out` of print groups.    *)
(***************************************************************************)
EXTENDS Integers, Sequences, FiniteSets, TLC

\* ------------------------------------------------------------------ bounds
MaxPosts == 2
MaxComments == 3
MaxCommentLimit == 2

\* ------------------------------------------------------------- input sets
None == "None"

\* os.getenv(...) of one credential: unset, set to the empty string, or set.
CredentialValues == {None, "", "abc123"}

Subreddits == {"LifeProTips", "nosuchsub"}

\* -l/--limit: listings of at most MaxPosts posts are modelled (one page).
PostLimits == 1..MaxPosts

\* -c/--comments is type=int: argparse accepts negative values too.
CommentLimits == (-1)..MaxCommentLimit

\* The k-th post of the upstream "top" listing (title and url are opaque
\* texts, the score may be negative).
Post(k) == [title |-> k, score |-> 7 - 5 * k, url |-> k]

\* Top-level comments the API can return.
Comments ==
    { [stickied |-> TRUE,  body |-> "rules",     score |-> 50],
      [stickied |-> FALSE, body |-> "hello",     score |-> 10],
      [stickied |-> FALSE, body |-> "[deleted]", score |-> 9],
      [stickied |-> FALSE, body |-> "[removed]", score |-> 7],
      [stickied |-> FALSE, body |-> "world",     score |-> 5] }

\* post.comments after replace_more: a comment occurs once in a listing.
CommentSeqs ==
    { cs \in UNION { [1..n -> Comments] : n \in 0..MaxComments } :
        \A j, k \in 1..Len(cs) : cs[j] = cs[k] => j = k }

\* ------------------------------------------------------------------ state
VARIABLES
    pc,              \* position of the run
    client_id, client_secret, user_agent,   \* the three os.getenv results
    subreddit_name, limit, comment_limit,   \* parsed arguments
    reddit,          \* None, or the constructed praw.Reddit client
    top_posts,       \* the listing once fetched (empty before)
    i,               \* enumerate index of the post loop
    comments,        \* post.comments of the current post, once expanded
    net,             \* network calls issued so far, in order
    out,             \* print groups written to stdout, in order
    exit_code        \* << >> while the process runs, then << its exit status >>

vars == << pc, client_id, client_secret, user_agent, subreddit_name, limit,
           comment_limit, reddit, top_posts, i, comments, net, out, exit_code >>

args == << client_id, client_secret, user_agent, subreddit_name, limit,
           comment_limit >>

\* ---------------------------------------------------------- print groups
CredentialError == [kind |-> "credential_error"]
AuthSuccess == [kind |-> "auth_ok"]
AuthError == [kind |-> "auth_error"]
Banner(sub, lim) == [kind |-> "banner", subreddit |-> sub, limit |-> lim]
Rule == [kind |-> "rule"]
Header(n, post) == [kind |-> "header", index |-> n, post |-> post]
CommentEntry(n, comment) == [kind |-> "comment", index |-> n, comment |-> comment]
Placeholder(n) == [kind |-> "placeholder", index |-> n]
ClosingBorder(n) == [kind |-> "close", index |-> n]
FetchError(sub) == [kind |-> "fetch_error", subreddit |-> sub]
AllDone == [kind |-> "done"]

\* A network call: "me", "top" or "comments" (of post number `post`).
Call(what, post, ok) == [call |-> what, post |-> post, ok |-> ok]

\* ------------------------------------------------------ get_reddit_instance
\* Python truthiness of an os.getenv result.
Truthy(v) == v # None /\ v # ""

AnyCredential == Truthy(client_id) \/ Truthy(client_secret) \/ Truthy(user_agent)

AllCredentials == Truthy(client_id) /\ Truthy(client_secret) /\ Truthy(user_agent)

\* lines 18-22: a credential is missing, print and exit(1).
CredentialsMissing ==
    /\ pc = "start"
    /\ ~AllCredentials
    /\ out' = Append(out, CredentialError)
    /\ exit_code' = << 1 >>
    /\ pc' = "exited"
    /\ UNCHANGED << args, reddit, top_posts, i, comments, net >>

\* lines 24-33: client constructed, reddit.user.me() succeeds.
AuthOk ==
    /\ pc = "start"
    /\ AllCredentials
    /\ reddit' = "client"
    /\ net' = Append(net, Call("me", 0, TRUE))
    /\ out' = Append(out, AuthSuccess)
    /\ pc' = "hunt"
    /\ UNCHANGED << args, top_posts, i, comments, exit_code >>

\* lines 24-31, 34-36: the identity check raises, print and exit(1).
AuthFail ==
    /\ pc = "start"
    /\ AllCredentials
    /\ reddit' = "client"
    /\ net' = Append(net, Call("me", 0, FALSE))
    /\ out' = Append(out, AuthError)
    /\ exit_code' = << 1 >>
    /\ pc' = "exited"
    /\ UNCHANGED << args, top_posts, i, comments >>

\* ---------------------------------------------------- get_newletter_content
\* lines 44-48: banner, lazy subreddit/top objects (no request yet), rule.
Hunt ==
    /\ pc = "hunt"
    /\ out' = out \o << Banner(subreddit_name, limit), Rule >>
    /\ pc' = "fetch"
    /\ UNCHANGED << args, reddit, top_posts, i, comments, net, exit_code >>

\* lines 78-80: the except handler of get_newletter_content.
Handler == << FetchError(subreddit_name) >>

\* line 50, first next(): the listing request returns n <= limit posts.
FetchPostsOk ==
    /\ pc = "fetch"
    /\ \E n \in 0..limit : top_posts' = [k \in 1..n |-> Post(k)]
    /\ net' = Append(net, Call("top", 0, TRUE))
    /\ i' = 0
    /\ pc' = "loop"
    /\ UNCHANGED << args, reddit, comments, out, exit_code >>

\* line 50, first next(): the listing request raises; handler, return.
FetchPostsFailRetry ==
    /\ pc = "fetch"
    /\ net' = Append(net, Call("top", 0, FALSE))
    /\ out' = out \o Handler
    /\ pc' = "fetch"
    /\ UNCHANGED << args, reddit, top_posts, i, comments, exit_code >>

FetchPostsFail ==
    /\ pc = "fetch"
    /\ net' = Append(net, Call("top", 0, FALSE))
    /\ out' = out \o Handler
    /\ pc' = "returned"
    /\ UNCHANGED << args, reddit, top_posts, i, comments, exit_code >>

\* lines 50-55: the listing yields the next post, its header is printed.
NextPost ==
    /\ pc = "loop"
    /\ i < Len(top_posts)
    /\ out' = Append(out, Header(i + 1, top_posts[i + 1]))
    /\ pc' = "expand"
    /\ UNCHANGED << args, reddit, top_posts, i, comments, net, exit_code >>

\* line 50: the listing is exhausted, the function returns.
PostsExhausted ==
    /\ pc = "loop"
    /\ i >= Len(top_posts)
    /\ pc' = "returned"
    /\ UNCHANGED << args, reddit, top_posts, i, comments, net, out, exit_code >>

\* lines 58-59: post.comments is fetched and its MoreComments removed.
ExpandCommentsOk ==
    /\ pc = "expand"
    /\ \E cs \in CommentSeqs : comments' = cs
    /\ net' = Append(net, Call("comments", i + 1, TRUE))
    /\ pc' = "select"
    /\ UNCHANGED << args, reddit, top_posts, i, out, exit_code >>

\* lines 58-59 raise: the handler around the whole loop runs, return.
ExpandCommentsFailEscapes ==
    /\ pc = "expand"
    /\ net' = Append(net, Call("comments", i + 1, FALSE))
    /\ out' = Append(out, [kind |-> "traceback"])
    /\ exit_code' = << 1 >>
    /\ pc' = "exited"
    /\ UNCHANGED << args, reddit, top_posts, i, comments >>

ExpandCommentsFail ==
    /\ pc = "expand"
    /\ net' = Append(net, Call("comments", i + 1, FALSE))
    /\ out' = out \o Handler
    /\ pc' = "returned"
    /\ UNCHANGED << args, reddit, top_posts, i, comments, exit_code >>

\* line 65: the eligibility test.
EligibleIgnoringRemoved(comment) ==
    ~comment.stickied /\ comment.body # "[deleted]"

Eligible(comment) ==
    ~comment.stickied /\ comment.body # "[deleted]" /\ comment.body # "[removed]"

\* line 63: the break test.
LimitExceeded(comments_fetched, limit_) == comments_fetched > limit_

LimitReached(comments_fetched, limit_) == comments_fetched >= limit_

\* lines 61-71: the comment loop from position k on, with comments_fetched
\* printed so far; the comments it prints, in order.
RECURSIVE CommentLoop(_, _, _, _)
CommentLoopCountsVisited(cs, k, comments_fetched, limit_) ==
    IF k > Len(cs) \/ LimitReached(k - 1, limit_) THEN << >>
    ELSE IF Eligible(cs[k])
         THEN << cs[k] >> \o CommentLoop(cs, k + 1, comments_fetched + 1, limit_)
         ELSE CommentLoop(cs, k + 1, comments_fetched, limit_)

CommentLoop(cs, k, comments_fetched, limit_) ==
    IF k > Len(cs) \/ LimitReached(comments_fetched, limit_) THEN << >>
    ELSE IF Eligible(cs[k])
         THEN << cs[k] >> \o CommentLoop(cs, k + 1, comments_fetched + 1, limit_)
         ELSE CommentLoop(cs, k + 1, comments_fetched, limit_)

\* line 73: the placeholder test.
NoComments(cs, comments_fetched) == Len(cs) = 0

NoneFetched(cs, comments_fetched) == comments_fetched = 0

\* lines 61-76: the comment section of post number n and its closing border.
CommentSection(n, cs, limit_) ==
    LET printed == CommentLoop(cs, 1, 0, limit_)
    IN  [k \in 1..Len(printed) |-> CommentEntry(n, printed[k])]
        \o (IF NoneFetched(cs, Len(printed)) THEN << Placeholder(n) >> ELSE << >>)
        \o << ClosingBorder(n) >>

RenderComments ==
    /\ pc = "select"
    /\ out' = out \o CommentSection(i + 1, comments, comment_limit)
    /\ i' = i + 1
    /\ pc' = "loop"
    /\ UNCHANGED << args, reddit, top_posts, comments, net, exit_code >>

\* ------------------------------------------------------------------- main
\* line 114 and the normal end of the process.
Finish ==
    /\ pc = "returned"
    /\ out' = Append(out, AllDone)
    /\ exit_code' = << 0 >>
    /\ pc' = "exited"
    /\ UNCHANGED << args, reddit, top_posts, i, comments, net >>

Init ==
    /\ pc = "start"
    /\ client_id \in CredentialValues
    /\ client_secret \in CredentialValues
    /\ user_agent \in CredentialValues
    /\ subreddit_name \in Subreddits
    /\ limit \in PostLimits
    /\ comment_limit \in CommentLimits
    /\ reddit = None
    /\ top_posts = << >>
    /\ i = 0
    /\ comments = << >>
    /\ net = << >>
    /\ out = << >>
    /\ exit_code = << >>

Next ==
    \/ CredentialsMissing
    \/ AuthOk
    \/ AuthFail
    \/ Hunt
    \/ FetchPostsOk
    \/ FetchPostsFail
    \/ NextPost
    \/ PostsExhausted
    \/ ExpandCommentsOk
    \/ ExpandCommentsFail
    \/ RenderComments
    \/ Finish

Spec == Init /\ [][Next]_vars

\* ------------------------------------------------------ reading the output
Min(a, b) == IF a < b THEN a ELSE b

\* The comments printed for post number n, in output order.
Printed(n) ==
    LET es == SelectSeq(out, LAMBDA e : e.kind = "comment" /\ e.index = n)
    IN  [k \in 1..Len(es) |-> es[k].comment]

\* How many print groups of out satisfy Test.
Count(seq, Test(_)) == Len(SelectSeq(seq, Test))

IsHeader(e) == e.kind = "header"
IsFetchError(e) == e.kind = "fetch_error"
IsCommentEntry(e) == e.kind = "comment"
IsFailedFetch(c) == c.call # "me" /\ ~c.ok
IsTopCall(c) == c.call = "top"

\* The comment loop of post number i has run on `comments`.
SelectionDone == i >= 1 /\ pc # "select"

\* The eligibility filter, as the specification words it.
NotStickiedDeletedRemoved(c) ==
    c.stickied = FALSE /\ c.body \notin {"[deleted]", "[removed]"}

\* Filter, then truncate to the first n.
FilterThenTruncate(cs, n) ==
    LET eligible == SelectSeq(cs, NotStickiedDeletedRemoved)
    IN  SubSeq(eligible, 1, Min(n, Len(eligible)))

CredentialMissing(v) == v = None \/ v = ""

SomeCredentialMissing ==
    \/ CredentialMissing(client_id)
    \/ CredentialMissing(client_secret)
    \/ CredentialMissing(user_agent)

IdentityCheckFailed == \E k \in 1..Len(net) : net[k].call = "me" /\ ~net[k].ok

CommentsFetchFailed(n) ==
    \E k \in 1..Len(net) :
        net[k].call = "comments" /\ net[k].post = n /\ ~net[k].ok

TopFetchFailed == \E k \in 1..Len(net) : net[k].call = "top" /\ ~net[k].ok

\* ----------------------------------------------------------------- claims

\* C1 as stated: for every commentLimit accepted by -c/--comments, the
\* comments printed for a post number at most commentLimit, and each is not
\* stickied with a body that is neither "[deleted]" nor "[removed]".
C1_AtMostLimitAndEligible ==
    SelectionDone =>
        /\ Len(Printed(i)) <= comment_limit
        /\ \A k \in 1..Len(Printed(i)) : NotStickiedDeletedRemoved(Printed(i)[k])

\* C1 amended: the comments printed for a post number at most
\* max(commentLimit, 0) (none for a negative commentLimit), and each is not
\* stickied with a body that is neither "[deleted]" nor "[removed]".
C1_AtMostNonNegativeLimitAndEligible ==
    SelectionDone =>
        /\ Len(Printed(i)) <= (IF comment_limit < 0 THEN 0 ELSE comment_limit)
        /\ \A k \in 1..Len(Printed(i)) : NotStickiedDeletedRemoved(Printed(i)[k])

C1_Witness ==
    /\ SelectionDone
    /\ comment_limit >= 1
    /\ Len(Printed(i)) = comment_limit
    /\ \E k \in 1..Len(comments) : ~NotStickiedDeletedRemoved(comments[k])

\* C2: for commentLimit >= 0 the comments printed for a post are exactly the
\* first min(commentLimit, number of eligible) elements of the eligible
\* subsequence of the upstream comments, in upstream order.
C2_FilterThenTruncate ==
    (SelectionDone /\ comment_limit >= 0) =>
        Printed(i) = FilterThenTruncate(comments, comment_limit)

\* An ineligible comment precedes the selected ones and the limit cuts the
\* eligible ones short.
C2_Witness ==
    /\ SelectionDone
    /\ comment_limit >= 1
    /\ Len(comments) >= 2
    /\ ~NotStickiedDeletedRemoved(comments[1])
    /\ Len(Printed(i)) = comment_limit
    /\ Len(SelectSeq(comments, NotStickiedDeletedRemoved)) > comment_limit

\* C3 as stated: when the comments fetch of post k fails, every post the
\* listing returned after post k is still rendered by the end of the run.
C3_FailureContainedPerPost ==
    pc = "exited" =>
        \A k \in 1..Len(top_posts) :
            CommentsFetchFailed(k) =>
                \A j \in (k + 1)..Len(top_posts) :
                    /\ Header(j, top_posts[j]) \in { out[m] : m \in 1..Len(out) }
                    /\ ClosingBorder(j) \in { out[m] : m \in 1..Len(out) }

\* C4: the process exits with status 1 exactly when a credential is missing
\* or the identity check failed; every other run ends with status 0 and the
\* completion line as its last output, whatever fetches failed.
C4_ExitStatus ==
    pc = "exited" =>
        /\ Len(exit_code) = 1
        /\ (exit_code[1] = 1) <=> (SomeCredentialMissing \/ IdentityCheckFailed)
        /\ exit_code[1] # 1 => (exit_code[1] = 0 /\ out[Len(out)] = AllDone)

\* A run in which a fetch failed and the process still ended with status 0.
C4_Witness ==
    /\ pc = "exited"
    /\ exit_code = << 0 >>
    /\ \E k \in 1..Len(net) : IsFailedFetch(net[k])

\* C5: with a credential absent or empty the run prints the credential
\* diagnostic and exits 1; no client is constructed and no network call is
\* ever issued.
C5_NoNetworkWithoutCredentials ==
    SomeCredentialMissing =>
        /\ reddit = None
        /\ net = << >>
        /\ pc \in {"start", "exited"}
        /\ pc = "exited" => (exit_code = << 1 >> /\ out = << CredentialError >>)

\* REDDIT_CLIENT_ID unset, the other two set, and the process has ended.
C5_Witness ==
    /\ pc = "exited"
    /\ client_id = None
    /\ ~CredentialMissing(client_secret)
    /\ ~CredentialMissing(user_agent)

\* C6: for every post whose comment section was rendered, the placeholder is
\* printed (once) iff no comment was printed for that post, and it is printed
\* whenever the post has no eligible comment.
C6_PlaceholderIffNoneSelected ==
    /\ \A n \in 1..i :
        LET placeholders == Count(out, LAMBDA e : e = Placeholder(n))
        IN  /\ placeholders <= 1
            /\ (placeholders = 1) <=> (Printed(n) = << >>)
    /\ (SelectionDone /\ SelectSeq(comments, NotStickiedDeletedRemoved) = << >>)
          => Count(out, LAMBDA e : e = Placeholder(i)) = 1

\* A post with comments, none of them eligible, got the placeholder; an
\* earlier post got comment entries.
C6_Witness ==
    /\ SelectionDone
    /\ i >= 2
    /\ Printed(1) # << >>
    /\ Len(comments) >= 1
    /\ Count(out, LAMBDA e : e = Placeholder(i)) = 1

\* C7: with commentLimit = 0 no comment entry is ever printed, whatever the
\* comments of the posts are.
C7_ZeroLimitSelectsNothing ==
    comment_limit = 0 => Count(out, IsCommentEntry) = 0

\* The first comment of the rendered post is eligible and the limit is 0.
C7_Witness ==
    /\ comment_limit = 0
    /\ SelectionDone
    /\ Len(comments) >= 1
    /\ NotStickiedDeletedRemoved(comments[1])

\* C8: when the top-posts fetch fails, no post is rendered, the diagnostic
\* naming the community is printed exactly once and is all the function
\* prints after the fetch was issued, and the fetch is issued once; in every
\* run no fetch is issued twice and each failed fetch is reported once.
C8_FailedFetchReportedOnceNoRetry ==
    /\ TopFetchFailed =>
        /\ Count(out, IsHeader) = 0
        /\ Count(out, LAMBDA e : e = FetchError(subreddit_name)) = 1
        /\ Count(net, IsTopCall) = 1
        /\ pc \in {"returned", "exited"}
        /\ pc = "exited" =>
              out = << AuthSuccess, Banner(subreddit_name, limit), Rule,
                       FetchError(subreddit_name), AllDone >>
    /\ \A j, k \in 1..Len(net) :
          (net[j].call = net[k].call /\ net[j].post = net[k].post) => j = k
    /\ Count(out, IsFetchError) = Count(net, IsFailedFetch)

C8_Witness ==
    /\ TopFetchFailed
    /\ pc = "exited"
    /\ subreddit_name = "nosuchsub"

\* C10 as stated: every printed post header is followed by that post's
\* comment entries or its placeholder and then by its closing border, before
\* the next header, a diagnostic or the completion line is printed.
C10_BlocksWellBracketed ==
    \A j \in 1..Len(out) :
        (out[j].kind = "header") =>
            \A m \in (j + 1)..Len(out) :
                (/\ out[m].kind \in {"header", "fetch_error", "done"}
                 /\ \A x \in (j + 1)..(m - 1) :
                        out[x].kind \notin {"header", "fetch_error", "done"})
                => /\ m - 1 > j + 1
                   /\ out[m - 1] = ClosingBorder(out[j].index)
                   /\ \/ /\ m - 1 = j + 2
                         /\ out[j + 1] = Placeholder(out[j].index)
                      \/ \A x \in (j + 1)..(m - 2) : out[x].kind = "comment"

====
